---- MODULE Spec2Model ----
(***************************************************************************)
(* Model of the appointment chatbot: the process-wide session, the         *)
(* dialogue manager generateResponse, the two external clients (askWit,    *)
(* askGemini) and the two adapters (the command-line chatLoop of           *)
(* witTest.js and the POST /chat handler of server.js).                    *)
(*                                                                         *)
(* Conventions.  A JavaScript string that the code inspects character by   *)
(* character (the user's message) is a sequence of one-character strings.  *)
(* A string the code only builds and hands on (a reply) is the sequence of *)
(* its segments, so a template literal is the concatenation of its literal *)
(* parts and the interpolated values.  Turkish letters are transliterated  *)
(* to ASCII in literals.  null, undefined and the empty string are the     *)
(* tokens Null, Undefined and EmptyStr.  Confidences are in hundredths.    *)
(*                                                                         *)
(* Specifications.  Spec: one conversation, turn after turn, the services  *)
(* answering as the data model says.  SpecWire: the same with every answer *)
(* the wire format allows.  SpecConc: turns of the two adapters            *)
(* overlapping at the awaits; FairSpecConc adds that calls settle.         *)
(***************************************************************************)
EXTENDS Integers, Sequences, FiniteSets, TLC

VARIABLES
    session,      \* the module-level session object {hastane, bolum, datetime}
    pc,           \* per caller: where its handler is suspended
    userMessage,  \* per caller: the input of the turn in progress
    geminiReq,    \* per caller: the arguments of the pending askGemini call
    geminiData,   \* per caller: what the generative service answered this turn
    botResponse,  \* per caller: the value generateResponse returned this turn
    out,          \* per caller: what the adapter printed / sent for this turn
    calls,        \* per caller: external calls issued in this turn
    last          \* history: the execution of generateResponse in the latest turn

vars == <<session, pc, userMessage, geminiReq, geminiData, botResponse, out, calls, last>>

-----------------------------------------------------------------------------
(* JavaScript values and the || operator *)

Null == "<null>"
Undefined == "<undefined>"
EmptyStr == ""

Falsy(v) == v \in {Null, Undefined, EmptyStr}
Truthy(v) == ~Falsy(v)

\* a || b || ... || z : the first truthy operand, else the last operand
RECURSIVE OrChain(_)
OrChain(vs) ==
    IF Len(vs) = 1 \/ Truthy(Head(vs)) THEN Head(vs) ELSE OrChain(Tail(vs))

-----------------------------------------------------------------------------
(* Bounds of the model *)

\* number of distinct entity values the classifier can extract
NumValues == 2

Values == {"v" \o ToString(i) : i \in 1..NumValues}

-----------------------------------------------------------------------------
(* String.prototype.toLowerCase / includes on character sequences *)

UpperAscii == <<"A","B","C","D","E","F","G","H","I","J","K","L","M",
                "N","O","P","Q","R","S","T","U","V","W","X","Y","Z">>
LowerAscii == <<"a","b","c","d","e","f","g","h","i","j","k","l","m",
                "n","o","p","q","r","s","t","u","v","w","x","y","z">>

\* the lower-case letter of each upper-case ASCII letter
LowerOfUpper ==
    [ch \in {UpperAscii[i] : i \in 1..Len(UpperAscii)} |->
        LowerAscii[CHOOSE i \in 1..Len(UpperAscii) : UpperAscii[i] = ch]]

\* U+0130 (capital dotted I) lower-cases to "i" followed by U+0307 (combining
\* dot above); toLowerCase is locale-independent.
LowerChar(ch) ==
    IF ch \in DOMAIN LowerOfUpper THEN <<LowerOfUpper[ch]>>
    ELSE IF ch = "U+0130" THEN <<"i", "U+0307">>
    ELSE <<ch>>

RECURSIVE toLowerCase(_)
toLowerCase(s) ==
    IF s = <<>> THEN <<>> ELSE LowerChar(Head(s)) \o toLowerCase(Tail(s))

includes(s, kw) ==
    \E i \in 0..(Len(s) - Len(kw)) : SubSeq(s, i + 1, i + Len(kw)) = kw

kwIptal == <<"i","p","t","a","l">>
kwCancel == <<"c","a","n","c","e","l">>
kwRandevu == <<"r","a","n","d","e","v","u">>
kwEvet == <<"e","v","e","t">>
kwExit == <<"e","x","i","t">>

-----------------------------------------------------------------------------
(* The session object and the classifier result *)

Slots == <<"hastane", "bolum", "datetime">>

EmptySession == [hastane |-> Null, bolum |-> Null, datetime |-> Null]

\* fault: the reset forgets one key
ResetSession_KeepsDatetime(s) == [s EXCEPT !.hastane = Null, !.bolum = Null]

\* Object.keys(session).forEach(key => session[key] = null)
ResetSession(s) == [k \in DOMAIN s |-> Null]

\* The entity keys generateResponse reads.  An entity list is a sequence of
\* items {value, values: [{value}, ...]}; a key that is missing from the
\* mapping is the empty list (both give undefined under ?.[0]).
AliasKeys == {"hastane:hastane", "hastane", "bolum:bolum", "bolum",
              "wit$datetime:datetime", "wit$datetime",
              "wit/datetime:datetime", "wit/datetime"}

\* entities[key]?.[0]?.value
FirstValue(entities, key) ==
    IF Len(entities[key]) = 0 THEN Undefined ELSE entities[key][1].value

\* entities[key]?.[0]?.values?.[0]?.value
FirstNestedValue(entities, key) ==
    IF Len(entities[key]) = 0 THEN Undefined
    ELSE IF Len(entities[key][1].values) = 0 THEN Undefined
    ELSE entities[key][1].values[1].value

\* witData.intents?.[0]?.name
TopIntent(witData) ==
    IF witData.hasIntents /\ Len(witData.intents) > 0
    THEN witData.intents[1].name ELSE Undefined

\* witData.intents?.[0]?.confidence || 0
TopConfidence(witData) ==
    IF witData.hasIntents /\ Len(witData.intents) > 0
    THEN witData.intents[1].confidence ELSE 0

-----------------------------------------------------------------------------
(* Replies *)

CancelReply == <<"Randevu islemi iptal edildi.">>
AskHastane == <<"Hangi hastane icin randevu almak istiyorsunuz?">>
AskBolum == <<"Hangi bolum icin randevu almak istiyorsunuz?">>
AskDatetime == <<"Hangi tarih ve saatte randevu almak istiyorsunuz?">>
SuccessReply == <<"Randevunuz basariyla olusturuldu!">>

Confirmation(s) ==
    <<"Onay: ", s.hastane, " hastanesi, ", s.bolum, " bolumu icin ", s.datetime,
      " tarihine randevu talebiniz alindi. Onayliyor musunuz? (evet/hayir)">>

GeminiQuota == <<"Uzgunum, su an cok fazla talep aliyorum. Lutfen biraz sonra tekrar deneyin (Kota Asildi).">>
GeminiBadKey == <<"API anahtarimda bir sorun var. Lutfen gelistiriciye bildirin (Gecersiz API Anahtari).">>
GeminiProblem(message) == <<"Gemini ile iletisimde bir sorun olustu: ", message>>
GeminiNotUnderstood == <<"Anlayamadim, lutfen baska sekilde ifade edin.">>
GeminiUnreachable == <<"Uzgunum, su anda Gemini ile baglanti kuramiyorum. Lutfen internet baglantinizi kontrol edin veya daha sonra tekrar deneyin.">>

-----------------------------------------------------------------------------
(* generateResponse, up to its only suspension point (await askGemini) *)

FlowConfidence == 70
HintConfidence == 50

\* lines 103-117: the three assignments, in order.  A slot that is already
\* truthy short-circuits; otherwise entities[...] is evaluated, which throws a
\* TypeError when witData.entities is undefined.
\* fault: the entity is preferred to the value already held
MergeHastane_EntityFirst(s, e) ==
    OrChain(<<FirstValue(e, "hastane:hastane"), FirstValue(e, "hastane"), s.hastane>>)

MergeHastane(s, e) ==
    OrChain(<<s.hastane, FirstValue(e, "hastane:hastane"), FirstValue(e, "hastane")>>)

MergeBolum(s, e) ==
    OrChain(<<s.bolum, FirstValue(e, "bolum:bolum"), FirstValue(e, "bolum")>>)

\* fault: the entity is preferred to the value already held
MergeDatetime_LastWins(s, e) ==
    OrChain(<<FirstValue(e, "wit$datetime:datetime"),
              FirstValue(e, "wit$datetime"),
              FirstValue(e, "wit/datetime:datetime"),
              FirstNestedValue(e, "wit/datetime:datetime"),
              FirstValue(e, "wit/datetime"),
              FirstNestedValue(e, "wit/datetime"),
              s.datetime>>)

\* fault: the nested candidate is tried before the item's own value
MergeDatetime_NestedFirst(s, e) ==
    OrChain(<<s.datetime,
              FirstValue(e, "wit$datetime:datetime"),
              FirstValue(e, "wit$datetime"),
              FirstNestedValue(e, "wit/datetime:datetime"),
              FirstValue(e, "wit/datetime:datetime"),
              FirstNestedValue(e, "wit/datetime"),
              FirstValue(e, "wit/datetime")>>)

MergeDatetime(s, e) ==
    OrChain(<<s.datetime,
              FirstValue(e, "wit$datetime:datetime"),
              FirstValue(e, "wit$datetime"),
              FirstValue(e, "wit/datetime:datetime"),
              FirstNestedValue(e, "wit/datetime:datetime"),
              FirstValue(e, "wit/datetime"),
              FirstNestedValue(e, "wit/datetime")>>)

EntityMerge(s, witData) ==
    LET e == witData.entities
        noEnt == ~witData.hasEntities
        t1 == Falsy(s.hastane) /\ noEnt
        s1 == IF t1 THEN s ELSE [s EXCEPT !.hastane = MergeHastane(s, e)]
        t2 == t1 \/ (Falsy(s1.bolum) /\ noEnt)
        s2 == IF t2 THEN s1 ELSE [s1 EXCEPT !.bolum = MergeBolum(s1, e)]
        t3 == t2 \/ (Falsy(s2.datetime) /\ noEnt)
        s3 == IF t3 THEN s2 ELSE [s2 EXCEPT !.datetime = MergeDatetime(s2, e)]
    IN [threw |-> t3, session |-> s3]

\* fault: only one of the two cancellation keywords is tested
IsCancel_IptalOnly(text) == includes(text, kwIptal)

\* line 120
IsCancel(text) == includes(text, kwIptal) \/ includes(text, kwCancel)

\* lines 126-136
requiresRandevuKeyword == TRUE

\* fault: a flow in progress is not continued
EntersFlow_KeywordOnly(s, text, intent, confidence) ==
    \/ (requiresRandevuKeyword /\ includes(text, kwRandevu)
            /\ intent = "randevu_al" /\ confidence > FlowConfidence)
    \/ (~requiresRandevuKeyword /\ intent = "randevu_al" /\ confidence > FlowConfidence)

\* fault: only the first slot continues a flow in progress
EntersFlow_HastaneOnly(s, text, intent, confidence) ==
    \/ (requiresRandevuKeyword /\ includes(text, kwRandevu)
            /\ intent = "randevu_al" /\ confidence > FlowConfidence)
    \/ (~requiresRandevuKeyword /\ intent = "randevu_al" /\ confidence > FlowConfidence)
    \/ Truthy(s.hastane)

\* fault: >= instead of >
EntersFlow_AtThreshold(s, text, intent, confidence) ==
    \/ (requiresRandevuKeyword /\ includes(text, kwRandevu)
            /\ intent = "randevu_al" /\ confidence >= FlowConfidence)
    \/ (~requiresRandevuKeyword /\ intent = "randevu_al" /\ confidence >= FlowConfidence)
    \/ Truthy(s.hastane) \/ Truthy(s.bolum) \/ Truthy(s.datetime)

EntersFlow(s, text, intent, confidence) ==
    \/ (requiresRandevuKeyword /\ includes(text, kwRandevu)
            /\ intent = "randevu_al" /\ confidence > FlowConfidence)
    \/ (~requiresRandevuKeyword /\ intent = "randevu_al" /\ confidence > FlowConfidence)
    \/ Truthy(s.hastane) \/ Truthy(s.bolum) \/ Truthy(s.datetime)

\* fault: completion clears one slot only
FlowStep_PartialReset(s, text) ==
    IF Falsy(s.hastane) THEN [kind |-> "ask", reply |-> AskHastane, session |-> s]
    ELSE IF Falsy(s.bolum) THEN [kind |-> "ask", reply |-> AskBolum, session |-> s]
    ELSE IF Falsy(s.datetime) THEN [kind |-> "ask", reply |-> AskDatetime, session |-> s]
    ELSE IF ~includes(text, kwEvet)
         THEN [kind |-> "confirm", reply |-> Confirmation(s), session |-> s]
         ELSE [kind |-> "success", reply |-> SuccessReply,
               session |-> [s EXCEPT !.datetime = Null]]

\* fault: the first two tests are swapped
FlowStep_BolumFirst(s, text) ==
    IF Falsy(s.bolum) THEN [kind |-> "ask", reply |-> AskBolum, session |-> s]
    ELSE IF Falsy(s.hastane) THEN [kind |-> "ask", reply |-> AskHastane, session |-> s]
    ELSE IF Falsy(s.datetime) THEN [kind |-> "ask", reply |-> AskDatetime, session |-> s]
    ELSE IF ~includes(text, kwEvet)
         THEN [kind |-> "confirm", reply |-> Confirmation(s), session |-> s]
         ELSE [kind |-> "success", reply |-> SuccessReply, session |-> ResetSession(s)]

\* lines 138-150: the reply and the session of a turn inside the flow
FlowStep(s, text) ==
    IF Falsy(s.hastane) THEN [kind |-> "ask", reply |-> AskHastane, session |-> s]
    ELSE IF Falsy(s.bolum) THEN [kind |-> "ask", reply |-> AskBolum, session |-> s]
    ELSE IF Falsy(s.datetime) THEN [kind |-> "ask", reply |-> AskDatetime, session |-> s]
    ELSE IF ~includes(text, kwEvet)
         THEN [kind |-> "confirm", reply |-> Confirmation(s), session |-> s]
         ELSE [kind |-> "success", reply |-> SuccessReply, session |-> ResetSession(s)]

\* lines 154-160
GeminiContext(userMsg, intent, confidence) ==
    <<"Kullanicinin mesaji: \"">> \o userMsg \o <<"\".">>
    \o (IF Truthy(intent) /\ intent # "randevu_al" /\ confidence > HintConfidence
        THEN <<" Wit.ai bunu \"", intent, "\" niyeti olarak algiladi.">>
        ELSE <<" Wit.ai belirli bir niyet belirleyemedi veya randevu akisina girilmedi.">>)
    \o <<" Lutfen dogal ve sohbetvari bir sekilde yanit verin.">>

NoGeminiReq == [text |-> <<>>, context |-> <<>>]

\* The synchronous part of generateResponse on session s.  kind is
\*   "throw"    the TypeError of the entity merge
\*   "cancel" | "ask" | "confirm" | "success"   a reply was returned
\*   "fallback" askGemini(userMessage, context) was called and is awaited
generateResponse(s, witData, userMsg) ==
    LET text == toLowerCase(userMsg)
        intent == TopIntent(witData)
        confidence == TopConfidence(witData)
        m == EntityMerge(s, witData)
        sm == m.session
    IN  IF m.threw
        THEN [kind |-> "throw", reply |-> <<>>, session |-> sm, req |-> NoGeminiReq]
        ELSE IF IsCancel(text)
        THEN [kind |-> "cancel", reply |-> CancelReply,
              session |-> ResetSession(sm), req |-> NoGeminiReq]
        ELSE IF EntersFlow(sm, text, intent, confidence)
        THEN [kind |-> FlowStep(sm, text).kind, reply |-> FlowStep(sm, text).reply,
              session |-> FlowStep(sm, text).session, req |-> NoGeminiReq]
        ELSE [kind |-> "fallback", reply |-> <<>>, session |-> sm,
              req |-> [text |-> userMsg,
                       context |-> GeminiContext(userMsg, intent, confidence)]]

-----------------------------------------------------------------------------
(* askGemini: the mapping of the service's answer to the returned string *)

KeyInvalidMessage == "API key not valid. Please pass a valid API key."

\* data.error.message.includes("API key not valid")
MentionsInvalidKey(message) == message = KeyInvalidMessage

\* What the generative service answered.  status "netfail": fetch rejected or
\* the body was no JSON; "json": data = {error?: {code, message}, candidates?};
\* "none": no answer yet.
NoGeminiData == [status |-> "none", hasError |-> FALSE, code |-> 0,
                 message |-> Undefined, text |-> Undefined]

GeminiNetFail == [NoGeminiData EXCEPT !.status = "netfail"]

GeminiError(code, message) ==
    [status |-> "json", hasError |-> TRUE, code |-> code, message |-> message,
     text |-> Undefined]

GeminiText(t) ==
    [status |-> "json", hasError |-> FALSE, code |-> 0, message |-> Undefined, text |-> t]

askGemini(data) ==
    IF data.status # "json" THEN GeminiUnreachable
    ELSE IF data.hasError /\ data.code = 429 THEN GeminiQuota
    ELSE IF data.hasError /\ data.code = 400 /\ data.message \in {Undefined, Null}
         THEN GeminiUnreachable   \* TypeError on .includes, caught at line 83
    ELSE IF data.hasError /\ data.code = 400 /\ MentionsInvalidKey(data.message)
         THEN GeminiBadKey
    ELSE IF data.hasError /\ Truthy(data.message) THEN GeminiProblem(data.message)
    ELSE IF Truthy(data.text) THEN <<data.text>>
    ELSE GeminiNotUnderstood

\* fault: the generated reply is decorated
ResumeGenerateResponse_Decorated(geminiReturn) == <<"Gemini: ">> \o geminiReturn

\* line 162: return await askGemini(userMessage, geminiContextForPrompt)
ResumeGenerateResponse(geminiReturn) == geminiReturn

-----------------------------------------------------------------------------
(* Inputs *)

Messages ==
    { <<"s","e","l","a","m">>,
      <<"R","a","n","d","e","v","u">>,
      <<"i","p","t","a","l">>,
      <<"U+0130","p","t","a","l">>,
      <<"e","v","e","t">>,
      <<"r","a","n","d","e","v","u"," ","e","v","e","t">>,
      <<"e","v","e","t"," ","r","a","n","d","e","v","u"," ","C","A","N","C","E","L">> }

\* req.body.message absent
MissingMessage == <<Undefined>>

CliInputs == Messages \cup { <<"e","x","i","t">>, <<"E","x","i","T">> }
HttpMessages == Messages \cup { <<>>, MissingMessage }

NoEntities == [k \in AliasKeys |-> <<>>]
Item(v) == [value |-> v, values |-> <<>>]
NestedItem(v) == [value |-> Undefined, values |-> <<[value |-> v]>>]

HastaneKeys == <<"hastane:hastane", "hastane">>
BolumKeys == <<"bolum:bolum", "bolum">>

\* the i-th value arrives under the i-th alias of its slot (cyclically)
Nth(keys, i) == keys[((i - 1) % Len(keys)) + 1]

DatetimeItems(i) ==
    LET v == "v" \o ToString(i)
        k == ((i - 1) % 6) + 1
    IN  CASE k = 1 -> [NoEntities EXCEPT !["wit$datetime:datetime"] = <<Item(v)>>]
          [] k = 2 -> [NoEntities EXCEPT !["wit/datetime"] = <<NestedItem(v)>>]
          [] k = 3 -> [NoEntities EXCEPT !["wit$datetime"] = <<Item(v)>>]
          [] k = 4 -> [NoEntities EXCEPT !["wit/datetime:datetime"] = <<Item(v)>>]
          [] k = 5 -> [NoEntities EXCEPT !["wit/datetime:datetime"] = <<NestedItem(v)>>]
          [] OTHER -> [NoEntities EXCEPT !["wit/datetime"] = <<Item(v)>>]

EntityMaps ==
    {NoEntities}
    \cup {[NoEntities EXCEPT ![Nth(HastaneKeys, i)] = <<Item("v" \o ToString(i))>>] : i \in 1..NumValues}
    \cup {[NoEntities EXCEPT ![Nth(BolumKeys, i)] = <<Item("v" \o ToString(i))>>] : i \in 1..NumValues}
    \cup {DatetimeItems(i) : i \in 1..NumValues}
    \cup {[DatetimeItems(i) EXCEPT ![Nth(HastaneKeys, i)] = <<Item("v" \o ToString(i))>>,
                                  ![Nth(BolumKeys, i)] = <<Item("v" \o ToString(i))>>]
            : i \in 1..NumValues}

IntentLists ==
    { <<>>,
      <<[name |-> "randevu_al", confidence |-> FlowConfidence]>>,
      <<[name |-> "randevu_al", confidence |-> FlowConfidence + 1]>>,
      <<[name |-> "selamlama", confidence |-> 90]>> }

\* The classifier results of the data model: intents optional, entities a mapping.
WitResults ==
    {[hasIntents |-> TRUE, intents |-> il, hasEntities |-> TRUE, entities |-> e]
        : il \in IntentLists, e \in EntityMaps}
    \cup {[hasIntents |-> FALSE, intents |-> <<>>, hasEntities |-> TRUE, entities |-> NoEntities]}

GeminiAnswers ==
    { GeminiNetFail,
      GeminiError(429, "Quota exceeded"),
      GeminiError(400, KeyInvalidMessage),
      GeminiError(500, "Internal error"),
      GeminiText("Merhaba!"),
      GeminiText(Undefined) }

-----------------------------------------------------------------------------
(* State *)

\* "cli" is the readline loop of witTest.js, "http" a client of POST /chat.
Callers == {"cli", "http"}

NoOut == [status |-> "none", field |-> "", text |-> <<>>]
NoCalls == [wit |-> 0, gemini |-> 0]
NoWit == [hasIntents |-> FALSE, intents |-> <<>>, hasEntities |-> FALSE,
          entities |-> NoEntities]
NoLast == [caller |-> "none", pre |-> EmptySession, msg |-> <<>>, wit |-> NoWit,
           merged |-> EmptySession, kind |-> "none", reply |-> <<>>, prev |-> "none"]

\* the kind of the latest execution of generateResponse before this one
PrevKind(l) == IF l.kind = "none" THEN l.prev ELSE l.kind

Init ==
    /\ session = EmptySession
    /\ pc = [c \in Callers |-> "idle"]
    /\ userMessage = [c \in Callers |-> <<>>]
    /\ geminiReq = [c \in Callers |-> NoGeminiReq]
    /\ geminiData = [c \in Callers |-> NoGeminiData]
    /\ botResponse = [c \in Callers |-> <<>>]
    /\ out = [c \in Callers |-> NoOut]
    /\ calls = [c \in Callers |-> NoCalls]
    /\ last = NoLast

-----------------------------------------------------------------------------
(* The adapters' output *)

\* chatLoop line 187 / server.js line 22
ReplyOut(c, reply) ==
    IF c = "cli" THEN [status |-> "stdout", field |-> "Bot:", text |-> reply]
    ELSE [status |-> "200", field |-> "reply", text |-> reply]

\* fault: the catch block answers without setting the status
CatchOut_DefaultStatus(c) ==
    IF c = "cli"
    THEN [status |-> "stdout", field |-> "Bot:",
          text |-> <<"Uzgunum, bir sorun olustu. Lutfen tekrar deneyin.">>]
    ELSE [status |-> "200", field |-> "error", text |-> <<"Sunucu hatasi">>]

\* chatLoop lines 188-191 / server.js lines 23-26
CatchOut(c) ==
    IF c = "cli"
    THEN [status |-> "stdout", field |-> "Bot:",
          text |-> <<"Uzgunum, bir sorun olustu. Lutfen tekrar deneyin.">>]
    ELSE [status |-> "500", field |-> "error", text |-> <<"Sunucu hatasi">>]

ByeOut == [status |-> "stdout", field |-> "Bot:", text |-> <<"Gorusmek uzere!">>]
BadRequestOut == [status |-> "400", field |-> "error", text |-> <<"message alani zorunludur">>]

-----------------------------------------------------------------------------
(* Actions *)

InTurn(c) == pc[c] \in {"wit", "gemini"}

\* The locals and the output of a finished handler invocation are kept, for
\* observation, until the next input arrives.
Fresh(f, c, v, none) == [d \in Callers |-> IF d = c THEN v ELSE IF InTurn(d) THEN f[d] ELSE none]

\* The handler has read its input and called askWit(text): fetch is pending.
StartTurn(c, text) ==
    /\ pc' = [pc EXCEPT ![c] = "wit"]
    /\ userMessage' = Fresh(userMessage, c, text, <<>>)
    /\ calls' = Fresh(calls, c, [wit |-> 1, gemini |-> 0], NoCalls)
    /\ out' = Fresh(out, c, NoOut, NoOut)
    /\ botResponse' = Fresh(botResponse, c, <<>>, <<>>)
    /\ geminiData' = Fresh(geminiData, c, NoGeminiData, NoGeminiData)
    /\ last' = [NoLast EXCEPT !.prev = PrevKind(last)]
    /\ UNCHANGED <<session, geminiReq>>

\* The handler has read its input and returns without a turn (exit, missing
\* message).
NoTurn(c, text, output) ==
    /\ calls' = Fresh(calls, c, NoCalls, NoCalls)
    /\ out' = Fresh(out, c, output, NoOut)
    /\ botResponse' = Fresh(botResponse, c, <<>>, <<>>)
    /\ geminiData' = Fresh(geminiData, c, NoGeminiData, NoGeminiData)
    /\ last' = [NoLast EXCEPT !.prev = PrevKind(last)]
    /\ userMessage' = Fresh(userMessage, c, text, <<>>)
    /\ UNCHANGED <<session, geminiReq>>

\* fault: the prompt is re-armed before the generative call has answered
CliLineFrom_NoWait(inputs) ==
    /\ pc["cli"] \in {"idle", "gemini"}
    /\ \E userInput \in inputs :
         IF toLowerCase(userInput) = kwExit
         THEN /\ pc' = [pc EXCEPT !["cli"] = "closed"]
              /\ NoTurn("cli", userInput, ByeOut)
         ELSE StartTurn("cli", userInput)

\* chatLoop lines 175-182: the callback of rl.question.  A question is pending
\* only after chatLoop() was called (line 197, then line 193 of each callback).
CliLineFrom(inputs) ==
    /\ pc["cli"] = "idle"
    /\ \E userInput \in inputs :
         IF toLowerCase(userInput) = kwExit
         THEN /\ pc' = [pc EXCEPT !["cli"] = "closed"]
              /\ NoTurn("cli", userInput, ByeOut)
         ELSE StartTurn("cli", userInput)

CliLine == CliLineFrom(CliInputs)

\* server.js lines 12-20
HttpPostFrom(messages) ==
    /\ pc["http"] = "idle"
    /\ \E message \in messages :
         IF message = MissingMessage \/ message = <<>>
         THEN /\ pc' = pc
              /\ NoTurn("http", message, BadRequestOut)
         ELSE StartTurn("http", message)

HttpPost == HttpPostFrom(HttpMessages)

\* The handler invocation of caller c ends with this output.
EndTurn(c, output) ==
    /\ pc' = [pc EXCEPT ![c] = "idle"]
    /\ out' = [out EXCEPT ![c] = output]
    /\ userMessage' = [userMessage EXCEPT ![c] = <<>>]
    /\ geminiReq' = [geminiReq EXCEPT ![c] = NoGeminiReq]

\* fault: a failed classifier call is issued again
AskWitFails_Retry(c) ==
    /\ pc[c] = "wit"
    /\ calls[c].wit < 3
    /\ calls' = [calls EXCEPT ![c].wit = @ + 1]
    /\ UNCHANGED <<session, pc, userMessage, geminiReq, geminiData, botResponse, out, last>>

\* askWit throws (fetch rejected, status not ok, body no JSON): the adapter's catch
AskWitFails(c) ==
    /\ pc[c] = "wit"
    /\ EndTurn(c, CatchOut(c))
    /\ UNCHANGED <<session, geminiData, botResponse, calls, last>>

\* fault: the HTTP adapter works on a session of its own
SessionOf_PerAdapter(c) == IF c = "http" THEN EmptySession ELSE session

\* The session object a caller's turn works on: the one module-level `session`
\* of witTest.js, whichever adapter calls generateResponse (server.js line 5).
SessionOf(c) == session

\* askWit returns witData: the adapter calls generateResponse, which runs to its
\* return or to await askGemini without yielding.
AskWitReturnsFrom(c, results) ==
    /\ pc[c] = "wit"
    /\ \E witData \in results :
         LET r == generateResponse(SessionOf(c), witData, userMessage[c]) IN
         /\ session' = r.session
         /\ last' = [caller |-> c, pre |-> session, msg |-> userMessage[c],
                     wit |-> witData, merged |-> EntityMerge(SessionOf(c), witData).session,
                     kind |-> r.kind, reply |-> r.reply,
                     prev |-> PrevKind(last)]
         /\ CASE r.kind = "throw" ->
                   /\ EndTurn(c, CatchOut(c))
                   /\ UNCHANGED <<botResponse, calls>>
              [] r.kind = "fallback" ->
                   /\ pc' = [pc EXCEPT ![c] = "gemini"]
                   /\ geminiReq' = [geminiReq EXCEPT ![c] = r.req]
                   /\ calls' = [calls EXCEPT ![c].gemini = @ + 1]
                   /\ UNCHANGED <<out, botResponse, userMessage>>
              [] OTHER ->
                   /\ EndTurn(c, ReplyOut(c, r.reply))
                   /\ botResponse' = [botResponse EXCEPT ![c] = r.reply]
                   /\ UNCHANGED calls
         /\ UNCHANGED geminiData

\* askWit returns a classifier result of the data model
AskWitReturns(c) == AskWitReturnsFrom(c, WitResults)

\* fault: the turn writes the session again after the await
GeminiReturnsFrom_LateWrite(c, answers) ==
    /\ pc[c] = "gemini"
    /\ \E data \in answers :
         /\ geminiData' = [geminiData EXCEPT ![c] = data]
         /\ botResponse' = [botResponse EXCEPT ![c] = ResumeGenerateResponse(askGemini(data))]
         /\ EndTurn(c, ReplyOut(c, ResumeGenerateResponse(askGemini(data))))
    /\ session' = ResetSession(session)
    /\ UNCHANGED <<calls, last>>

\* The generative service answers (or the transport fails): askGemini maps the
\* answer to a string, generateResponse returns it, the adapter outputs it.
GeminiReturnsFrom(c, answers) ==
    /\ pc[c] = "gemini"
    /\ \E data \in answers :
         /\ geminiData' = [geminiData EXCEPT ![c] = data]
         /\ botResponse' = [botResponse EXCEPT ![c] = ResumeGenerateResponse(askGemini(data))]
         /\ EndTurn(c, ReplyOut(c, ResumeGenerateResponse(askGemini(data))))
    /\ UNCHANGED <<session, calls, last>>

GeminiReturns(c) == GeminiReturnsFrom(c, GeminiAnswers)

\* No turn is in progress: every handler is waiting for input (or closed).
Quiescent == \A c \in Callers : pc[c] \in {"idle", "closed"}

\* One conversation: the user submits an input when the previous turn has been
\* answered.  chatLoop enforces this for its own lines (rl.question is re-armed
\* at line 193 only); for POST /chat it is how a single user behaves.
Next ==
    \/ (Quiescent /\ CliLine)
    \/ (Quiescent /\ HttpPost)
    \/ \E c \in Callers : AskWitFails(c)
    \/ \E c \in Callers : AskWitReturns(c)
    \/ \E c \in Callers : GeminiReturns(c)

Spec == Init /\ [][Next]_vars

-----------------------------------------------------------------------------
(* The same conversation when the services answer anything their wire format  *)
(* allows: res.json() of askWit is returned unvalidated (line 38), and so is   *)
(* the body askGemini reads (line 68).                                         *)

\* a 200 answer of the classifier whose body has no `entities` member
EntitiesAbsentResults ==
    {[hasIntents |-> TRUE, intents |-> il, hasEntities |-> FALSE, entities |-> NoEntities]
        : il \in IntentLists}
    \cup {[hasIntents |-> FALSE, intents |-> <<>>, hasEntities |-> FALSE, entities |-> NoEntities]}

\* an item with its own value and a nested candidate
BothItem(v, w) == [value |-> v, values |-> <<[value |-> w]>>]

\* answers that carry one slot under two of its keys with different values, or
\* an empty value under the first key
SeveralAliasesMaps ==
    { [NoEntities EXCEPT !["hastane:hastane"] = <<Item("v2")>>, !["hastane"] = <<Item("v1")>>],
      [NoEntities EXCEPT !["hastane:hastane"] = <<Item(EmptyStr)>>, !["hastane"] = <<Item("v1")>>],
      [NoEntities EXCEPT !["bolum:bolum"] = <<Item("v2")>>, !["bolum"] = <<Item("v1")>>],
      [NoEntities EXCEPT !["wit$datetime:datetime"] = <<Item("v2")>>,
                         !["wit$datetime"] = <<Item("v1")>>],
      [NoEntities EXCEPT !["wit$datetime"] = <<Item("v2")>>,
                         !["wit/datetime:datetime"] = <<Item("v1")>>],
      [NoEntities EXCEPT !["wit/datetime:datetime"] = <<BothItem("v2", "v1")>>],
      [NoEntities EXCEPT !["wit/datetime:datetime"] = <<NestedItem("v2")>>,
                         !["wit/datetime"] = <<Item("v1")>>],
      [NoEntities EXCEPT !["wit/datetime"] = <<BothItem("v2", "v1")>>] }

SeveralAliasesResults ==
    {[hasIntents |-> TRUE, intents |-> <<>>, hasEntities |-> TRUE, entities |-> e]
        : e \in SeveralAliasesMaps}

WireResults == WitResults \cup EntitiesAbsentResults \cup SeveralAliasesResults

\* bodies whose `error` object carries an empty or no `message` (line 76 tests
\* for it), and a 400 that is no credential error
WireAnswers ==
    GeminiAnswers
    \cup { GeminiError(503, EmptyStr),
           GeminiError(400, Undefined),
           GeminiError(400, "Invalid JSON payload received.") }

AskWitReturnsAny(c) == AskWitReturnsFrom(c, WireResults)

GeminiReturnsAny(c) == GeminiReturnsFrom(c, WireAnswers)

NextWire ==
    \/ (Quiescent /\ CliLine)
    \/ (Quiescent /\ HttpPost)
    \/ \E c \in Callers : AskWitFails(c)
    \/ \E c \in Callers : AskWitReturnsAny(c)
    \/ \E c \in Callers : GeminiReturnsAny(c)

SpecWire == Init /\ [][NextWire]_vars

-----------------------------------------------------------------------------
(* Overlapping turns.  server.js imports witTest.js, so one process runs the   *)
(* readline loop and the HTTP route on one event loop over one `session`; a    *)
(* request can arrive while another handler is suspended at an await.  Each    *)
(* caller's entity values are its own (the CLI user's "v1", the HTTP client's  *)
(* "v2"), so a value in the session tells who supplied it.                     *)

ConcCliInputs ==
    { <<"R","a","n","d","e","v","u">>, <<"e","v","e","t">>, <<"E","x","i","T">> }

ConcHttpMessages ==
    { <<"s","e","l","a","m">>, <<"e","v","e","t">>, <<"i","p","t","a","l">>, MissingMessage }

ValueOf(c) == IF c = "cli" THEN "v1" ELSE "v2"

ConcEntityMaps(c) ==
    { NoEntities,
      [NoEntities EXCEPT !["hastane"] = <<Item(ValueOf(c))>>],
      [NoEntities EXCEPT !["hastane:hastane"] = <<Item(ValueOf(c))>>,
                         !["bolum:bolum"] = <<Item(ValueOf(c))>>,
                         !["wit$datetime:datetime"] = <<Item(ValueOf(c))>>] }

ConcResults(c) ==
    {[hasIntents |-> TRUE, intents |-> il, hasEntities |-> TRUE, entities |-> e]
        : il \in { <<>>, <<[name |-> "randevu_al", confidence |-> FlowConfidence + 1]>> },
          e \in ConcEntityMaps(c)}

ConcAnswers == { GeminiNetFail, GeminiText("Merhaba!") }

CliLineConc == CliLineFrom(ConcCliInputs)

HttpPostConc == HttpPostFrom(ConcHttpMessages)

AskWitReturnsConc(c) == AskWitReturnsFrom(c, ConcResults(c))

GeminiReturnsConc(c) == GeminiReturnsFrom(c, ConcAnswers)

NextConc ==
    \/ CliLineConc
    \/ HttpPostConc
    \/ \E c \in Callers : AskWitFails(c)
    \/ \E c \in Callers : AskWitReturnsConc(c)
    \/ \E c \in Callers : GeminiReturnsConc(c)

SpecConc == Init /\ [][NextConc]_vars

\* Every external call eventually returns or fails: a pending fetch is settled
\* by the network stack, and the event loop then resumes the handler awaiting it.
CallsSettle ==
    \A c \in Callers :
        /\ WF_vars(AskWitFails(c) \/ AskWitReturnsConc(c))
        /\ WF_vars(GeminiReturnsConc(c))

FairSpecConc == SpecConc /\ CallsSettle

-----------------------------------------------------------------------------
(* Vocabulary of the properties.  A turn is one execution of generateResponse; *)
(* `last` holds its inputs (pre, msg, wit), the session after the entity merge *)
(* (merged), what it returned (kind, reply), and `session` is what it left.    *)

Ran == last.kind # "none"
LoweredMsg == toLowerCase(last.msg)
SaysCancel == includes(LoweredMsg, kwIptal) \/ includes(LoweredMsg, kwCancel)
SaysEvet == includes(LoweredMsg, kwEvet)
SaysRandevu == includes(LoweredMsg, kwRandevu)

AllAbsent(s) == Falsy(s.hastane) /\ Falsy(s.bolum) /\ Falsy(s.datetime)
AllFilled(s) == Truthy(s.hastane) /\ Truthy(s.bolum) /\ Truthy(s.datetime)
AnyFilled(s) == ~AllAbsent(s)

\* the classifier supplied no value under any entity key
NoEntityValues(w) == \A k \in AliasKeys : w.entities[k] = <<>>

\* top intent 'randevu_al' with confidence strictly above 0.7
BookingIntentAbove(w) == TopIntent(w) = "randevu_al" /\ TopConfidence(w) > 70

\* nothing of the caller's turn went to, or is waiting for, the generative service
NoGenerativeCall(c) == calls[c].gemini = 0 /\ pc[c] # "gemini" /\ geminiData[c] = NoGeminiData

-----------------------------------------------------------------------------
(* C1: a turn whose lower-cased message contains 'iptal' or 'cancel' leaves all *)
(* three slots null and returns the fixed cancellation reply, whatever the      *)
(* session, the classifier result and the rest of the message were; no slot     *)
(* question, confirmation, success reply or generative call is produced.        *)
C1_CancelClearsAndReplies ==
    (Ran /\ SaysCancel) =>
        /\ session = EmptySession
        /\ last.reply = CancelReply
        /\ botResponse[last.caller] = CancelReply
        /\ out[last.caller] = ReplyOut(last.caller, CancelReply)
        /\ NoGenerativeCall(last.caller)

\* a cancellation in mid-flow, in a message that also carries the trigger and
\* the affirmative keyword, with entities in the classifier result
C1_Witness ==
    /\ Ran /\ SaysCancel /\ SaysEvet /\ SaysRandevu
    /\ Truthy(last.pre.hastane) /\ Falsy(last.pre.bolum)
    /\ ~NoEntityValues(last.wit)
    /\ BookingIntentAbove(last.wit)
    /\ session = EmptySession /\ last.reply = CancelReply

\* a turn that is not cancelled and meets the flow-entry condition
C2_InFlow ==
    Ran /\ ~SaysCancel /\ ((SaysRandevu /\ BookingIntentAbove(last.wit)) \/ AnyFilled(last.merged))

(* C2: in a turn that is not cancelled and is in the appointment flow, the      *)
(* reply is the question for the first slot absent after the entity merge, in   *)
(* the order hastane, bolum, datetime, and no populated slot is asked for.      *)
C2_AsksFirstMissingSlot ==
    C2_InFlow =>
        /\ Falsy(last.merged.hastane) => last.reply = AskHastane
        /\ (Truthy(last.merged.hastane) /\ Falsy(last.merged.bolum)) => last.reply = AskBolum
        /\ (Truthy(last.merged.hastane) /\ Truthy(last.merged.bolum)
                /\ Falsy(last.merged.datetime)) => last.reply = AskDatetime
        /\ AllFilled(last.merged) => last.reply \notin {AskHastane, AskBolum, AskDatetime}
        /\ ~AllFilled(last.merged) => session = last.merged

\* slots filled one per turn in order: this turn brought the department, the
\* one before asked for it, and the reply asks for the date
C2_Witness ==
    /\ C2_InFlow /\ last.prev = "ask"
    /\ Truthy(last.pre.hastane) /\ Falsy(last.pre.bolum) /\ Falsy(last.pre.datetime)
    /\ Truthy(session.bolum) /\ Falsy(session.datetime)
    /\ ~SaysRandevu
    /\ last.reply = AskDatetime

(* C3 as claimed: once all three slots are filled, every turn whose message     *)
(* does not contain 'evet' returns the confirmation message of the three slot   *)
(* values and leaves the session unchanged.                                     *)
C3_Claimed ==
    (Ran /\ AllFilled(last.pre) /\ ~SaysEvet) =>
        (last.reply = Confirmation(last.pre) /\ session = last.pre)

(* C3, amended: ... every turn whose message contains neither 'evet' nor a      *)
(* cancellation keyword ('iptal', 'cancel') returns the identical confirmation  *)
(* message and leaves the session unchanged.                                    *)
C3_RepromptUntilAffirmed ==
    (Ran /\ AllFilled(last.pre) /\ ~SaysEvet /\ ~SaysCancel) =>
        /\ last.reply = Confirmation(last.pre)
        /\ botResponse[last.caller] = Confirmation(last.pre)
        /\ session = last.pre
        /\ NoGenerativeCall(last.caller)

\* the confirmation is repeated: the turn before already returned it
C3_Witness ==
    /\ Ran /\ AllFilled(last.pre) /\ ~SaysEvet /\ ~SaysCancel
    /\ last.prev = "confirm"
    /\ ~NoEntityValues(last.wit)
    /\ last.reply = Confirmation(session)

(* C4 as claimed: with all three slots filled, a turn whose message contains    *)
(* 'evet' clears the slots and returns the success reply.                       *)
C4_Claimed ==
    (Ran /\ AllFilled(last.pre) /\ SaysEvet) =>
        (session = EmptySession /\ last.reply = SuccessReply)

(* C4, amended: with all three slots filled, a turn whose message contains      *)
(* 'evet' and no cancellation keyword sets the three slots to null and returns  *)
(* the success reply; the next turn, when it is not a cancellation, meets the   *)
(* flow-entry condition and brings no entity, starts from an empty session and  *)
(* is answered with the facility question.                                      *)
C4_AffirmCompletesAndRestarts ==
    /\ (Ran /\ AllFilled(last.pre) /\ SaysEvet /\ ~SaysCancel) =>
          /\ session = EmptySession
          /\ last.reply = SuccessReply
          /\ botResponse[last.caller] = SuccessReply
          /\ NoGenerativeCall(last.caller)
    /\ (Ran /\ last.prev = "success" /\ ~SaysCancel /\ SaysRandevu
            /\ BookingIntentAbove(last.wit) /\ NoEntityValues(last.wit)) =>
          /\ last.pre = EmptySession
          /\ last.reply = AskHastane
          /\ AllAbsent(session)

\* the turn after a completed booking restarts the flow at the facility question
C4_Witness ==
    /\ Ran /\ last.prev = "success" /\ SaysRandevu /\ BookingIntentAbove(last.wit)
    /\ NoEntityValues(last.wit)
    /\ last.reply = AskHastane

(* C5 as claimed: with all slots absent and no slot value from the classifier,  *)
(* a message containing 'randevu' with top intent 'randevu_al' enters the flow  *)
(* iff the confidence is strictly above 0.7; without the keyword or with        *)
(* another top intent it never enters the flow.                                 *)
C5_Claimed ==
    (Ran /\ AllAbsent(last.pre) /\ NoEntityValues(last.wit)) =>
        (last.reply = AskHastane <=> (SaysRandevu /\ BookingIntentAbove(last.wit)))

(* C5, amended: ... a message containing 'randevu' and no cancellation keyword  *)
(* ... (the rest unchanged).                                                    *)
C5_StrictThreshold ==
    (Ran /\ AllAbsent(last.pre) /\ NoEntityValues(last.wit) /\ ~SaysCancel) =>
        /\ (SaysRandevu /\ BookingIntentAbove(last.wit)) =>
              (last.kind = "ask" /\ last.reply = AskHastane)
        /\ ~(SaysRandevu /\ BookingIntentAbove(last.wit)) =>
              (last.kind = "fallback" /\ last.reply # AskHastane)

\* the boundary: the trigger keyword with 'randevu_al' at exactly 0.7 goes to
\* the generative fallback
C5_Witness ==
    /\ Ran /\ AllAbsent(last.pre) /\ NoEntityValues(last.wit) /\ ~SaysCancel
    /\ SaysRandevu /\ TopIntent(last.wit) = "randevu_al" /\ TopConfidence(last.wit) = 70
    /\ last.kind = "fallback"

\* slot k kept its value, or the whole session was cleared at a reset point
C6_SlotKept(k) ==
    Truthy(last.pre[k]) =>
        \/ session[k] = last.pre[k]
        \/ (last.kind \in {"cancel", "success"} /\ session = EmptySession)

(* C6: first-write-wins: a slot that holds a value keeps that value in every   *)
(* later turn, whatever entities the classifier result carries, until a turn    *)
(* that is a cancellation or a confirmed completion clears the whole session.   *)
C6_FirstWriteWins ==
    Ran => (C6_SlotKept("hastane") /\ C6_SlotKept("bolum") /\ C6_SlotKept("datetime"))

\* the classifier offers another facility and another date while both slots
\* hold a value: the session keeps the old ones
C6_Witness ==
    /\ Ran /\ last.kind = "confirm"
    /\ AllFilled(last.pre)
    /\ Truthy(MergeHastane(EmptySession, last.wit.entities))
    /\ MergeHastane(EmptySession, last.wit.entities) # last.pre.hastane
    /\ Truthy(MergeDatetime(EmptySession, last.wit.entities))
    /\ MergeDatetime(EmptySession, last.wit.entities) # last.pre.datetime
    /\ session = last.pre

\* the turn is a cancellation or an affirmed confirmation
C7_ResetTurn == SaysCancel \/ (SaysEvet /\ AllFilled(last.merged))

(* C7: a slot goes from populated to absent only in a turn that is a            *)
(* cancellation or an affirmed confirmation, and then all three slots become    *)
(* absent together; in every other turn each populated slot stays populated.    *)
C7_ResetOnlyAtResetPoints ==
    Ran =>
        /\ (\E k \in {"hastane", "bolum", "datetime"} : Truthy(last.pre[k]) /\ Falsy(session[k]))
              => (C7_ResetTurn /\ AllAbsent(session))
        /\ C7_ResetTurn => AllAbsent(session)
        /\ ~C7_ResetTurn =>
              \A k \in {"hastane", "bolum", "datetime"} : Truthy(last.pre[k]) => Truthy(session[k])

\* partial state persists: a turn without the trigger keyword and without any
\* entity leaves a half-filled session as it was
C7_Witness ==
    /\ Ran /\ ~C7_ResetTurn /\ last.prev = "ask"
    /\ Truthy(last.pre.hastane) /\ Truthy(last.pre.bolum) /\ Falsy(last.pre.datetime)
    /\ NoEntityValues(last.wit) /\ ~SaysRandevu
    /\ Truthy(session.hastane) /\ Truthy(session.bolum) /\ Falsy(session.datetime)

\* the replies of the appointment flow
C8_FlowReplies ==
    {CancelReply, AskHastane, AskBolum, AskDatetime, SuccessReply,
     Confirmation(last.merged)}

(* C8: the generative fallback is invoked only in a turn in which all three     *)
(* slots are absent after the entity merge; once a slot is populated, every     *)
(* turn gets a reply of the appointment flow (slot question, confirmation,      *)
(* success, cancellation), with or without trigger keyword and booking intent.  *)
C8_FallbackOnlyOutsideFlow ==
    Ran =>
        /\ (~NoGenerativeCall(last.caller)) => (AllAbsent(last.merged) /\ AllAbsent(session))
        /\ AnyFilled(last.pre) =>
              /\ NoGenerativeCall(last.caller)
              /\ last.reply \in C8_FlowReplies
              /\ botResponse[last.caller] = last.reply

\* a flow in progress continues on a message without trigger keyword, booking
\* intent or entity
C8_Witness ==
    /\ Ran /\ AnyFilled(last.pre) /\ ~AllFilled(last.pre)
    /\ ~SaysRandevu /\ ~SaysCancel /\ ~SaysEvet
    /\ TopIntent(last.wit) = "selamlama" /\ NoEntityValues(last.wit)
    /\ last.kind = "ask" /\ NoGenerativeCall(last.caller)

\* nothing in the turn concerns a booking
C9_NoBookingContent ==
    /\ Ran /\ AllAbsent(last.pre) /\ ~SaysCancel /\ NoEntityValues(last.wit)
    /\ ~(SaysRandevu /\ BookingIntentAbove(last.wit))

(* C9: with all slots absent, no cancellation keyword, no entity value and the  *)
(* flow-entry condition not met, the turn calls the generative fallback exactly *)
(* once, returns what it returned, unmodified, and leaves all slots absent.     *)
C9_FallbackVerbatim ==
    C9_NoBookingContent =>
        /\ last.kind = "fallback"
        /\ calls[last.caller].gemini = 1
        /\ AllAbsent(session)
        /\ pc[last.caller] = "gemini" =>
              /\ geminiReq[last.caller].text = last.msg
              /\ out[last.caller] = NoOut
        /\ pc[last.caller] # "gemini" =>
              /\ geminiData[last.caller] \in GeminiAnswers
              /\ botResponse[last.caller] = askGemini(geminiData[last.caller])
              /\ out[last.caller] = ReplyOut(last.caller, askGemini(geminiData[last.caller]))

\* the fallback answered with a generated text and the turn returned it
C9_Witness ==
    /\ C9_NoBookingContent /\ pc[last.caller] = "idle"
    /\ geminiData[last.caller] = GeminiText("Merhaba!")
    /\ botResponse[last.caller] = <<"Merhaba!">>
    /\ out[last.caller].text = <<"Merhaba!">>
    /\ AllAbsent(session)

\* the same slot values, an absent slot being one value
C10_SameSlots(s, t) ==
    \A k \in {"hastane", "bolum", "datetime"} : s[k] = t[k] \/ (Falsy(s[k]) /\ Falsy(t[k]))

C10_Step(c) ==
    /\ (pc[c] = "idle" /\ pc'[c] = "wit") => session' = session
    /\ (pc[c] = "wit" /\ pc'[c] = "idle" /\ out'[c] = CatchOut(c)) => session' = session
    /\ (pc[c] = "wit" /\ pc'[c] = "gemini") => C10_SameSlots(session, session')
    /\ (pc[c] = "gemini" /\ pc'[c] = "idle") =>
          (session' = session /\ out'[c] = ReplyOut(c, botResponse'[c]))
    /\ (pc[c] = "wit" /\ pc'[c] # "wit" /\ ~C10_SameSlots(session, session')) =>
          /\ pc'[c] = "idle"
          /\ calls'[c] = [wit |-> 1, gemini |-> 0]
          /\ out'[c] = ReplyOut(c, botResponse'[c])

(* C10: no error corrupts the session.  The steps of a turn that end it with an *)
(* error (the classifier call failed, or generateResponse threw) and the steps  *)
(* around the generative call (issuing it, its answer or its failure) leave     *)
(* every slot with the value it had: a step changes a slot's value only when    *)
(* the classifier call has succeeded and the turn makes no generative call.     *)
C10_NoPartialCorruption == [][\A c \in Callers : C10_Step(c)]_vars

\* the generative call of a turn failed after the entity merge had rewritten
\* the (absent) slots: the slots are still absent
C10_Witness ==
    \E c \in Callers :
        /\ pc[c] = "idle" /\ geminiData[c] = GeminiNetFail
        /\ out[c] = ReplyOut(c, GeminiUnreachable)
        /\ last.caller = c /\ last.pre = EmptySession
        /\ session # EmptySession /\ AllAbsent(session)

-----------------------------------------------------------------------------
\* generateResponse returned a string, or is awaiting the generative call
C11_Returned == last.kind \in {"cancel", "ask", "confirm", "success", "fallback"}

(* C11: generateResponse raises no error of its own: for every session, every  *)
(* message string and every classifier result the intent service may return,   *)
(* a result without `intents` or without `entities` included, the execution    *)
(* returns a reply string (its own, or the one of the generative fallback),    *)
(* and the adapter outputs that reply, never its failure reply.                *)
C11_AlwaysReplies ==
    Ran =>
        /\ C11_Returned
        /\ out[last.caller] # CatchOut(last.caller)
        /\ pc[last.caller] = "idle" => out[last.caller] = ReplyOut(last.caller, botResponse[last.caller])

-----------------------------------------------------------------------------
\* the generative call of caller c has been answered and mapped to a string
C12_Answered(c) == geminiData[c].status # "none"

\* the failure categories of an answer
C12_RateLimited(d) == d.status = "json" /\ d.hasError /\ d.code = 429
C12_BadCredential(d) ==
    d.status = "json" /\ d.hasError /\ d.code = 400 /\ d.message = KeyInvalidMessage
C12_OtherError(d) ==
    d.status = "json" /\ d.hasError /\ ~C12_RateLimited(d) /\ ~C12_BadCredential(d)
C12_TransportFailure(d) == d.status = "netfail"

\* the fixed text that opens the reply to any other service error
C12_ProblemText == "Gemini ile iletisimde bir sorun olustu: "

C12_Mapped(d, r) ==
    /\ Len(r) > 0
    /\ C12_RateLimited(d) => r = GeminiQuota
    /\ C12_BadCredential(d) => r = GeminiBadKey
    /\ C12_OtherError(d) => (Len(r) = 2 /\ r[1] = C12_ProblemText)
    /\ C12_TransportFailure(d) => r = GeminiUnreachable
    /\ r = GeminiNotUnderstood => (d.status = "json" /\ ~d.hasError /\ Falsy(d.text))
    /\ (d.status = "json" /\ ~d.hasError /\ Truthy(d.text)) => r = <<d.text>>

(* C12: askGemini never propagates a failure: every answered call has returned *)
(* a string; a rate-limit error, an invalid-credential error, any other        *)
(* service error and a transport failure are each mapped to their own text,    *)
(* the four texts differ from one another and from the 'could not understand'  *)
(* string, and that string is returned only for a response with no error and   *)
(* no text candidate.                                                          *)
C12_FailuresMappedDistinctly ==
    /\ Cardinality({GeminiQuota[1], GeminiBadKey[1], C12_ProblemText,
                     GeminiUnreachable[1], GeminiNotUnderstood[1]}) = 5
    /\ \A c \in Callers :
          C12_Answered(c) =>
              /\ botResponse[c] = askGemini(geminiData[c])
              /\ C12_Mapped(geminiData[c], botResponse[c])

-----------------------------------------------------------------------------
\* the response of POST /chat, once sent, by status
C13_Sent ==
    out["http"] # NoOut =>
        /\ pc["http"] = "idle"
        /\ out["http"].status \in {"400", "200", "500"}
        /\ out["http"].status = "400" =>
              (out["http"] = BadRequestOut /\ calls["http"] = NoCalls)
        /\ out["http"].status = "200" =>
              /\ out["http"].field = "reply"
              /\ out["http"].text = botResponse["http"]
              /\ Len(out["http"].text) > 0
              /\ calls["http"].wit = 1
              /\ last.caller = "http" /\ C11_Returned
        /\ out["http"].status = "500" =>
              /\ out["http"] = [status |-> "500", field |-> "error", text |-> <<"Sunucu hatasi">>]
              /\ calls["http"].wit = 1
              /\ last.kind \in {"none", "throw"}

\* the steps of the handler of POST /chat
C13_Step ==
    /\ (out["http"] # BadRequestOut /\ out'["http"] = BadRequestOut) =>
          (pc["http"] = "idle" /\ pc' = pc /\ session' = session /\ calls'["http"] = NoCalls)
    /\ (InTurn("http") /\ pc'["http"] = "idle") =>
          /\ out'["http"] # NoOut
          /\ out'["http"].status = "200" <=>
                \/ pc["http"] = "gemini"
                \/ (last'.caller = "http" /\ last'.kind \in {"cancel", "ask", "confirm", "success"})
          /\ out'["http"].status = "500" <=>
                /\ pc["http"] = "wit"
                /\ (last' = last \/ (last'.caller = "http" /\ last'.kind = "throw"))
    /\ (InTurn("http") /\ InTurn("http")') => out'["http"] = NoOut

(* C13: every POST /chat request receives exactly one response: none while the *)
(* handler is suspended and one when it ends; status 400 with an error body    *)
(* when `message` is missing, with no external call and the session unchanged; *)
(* status 200 with {reply} when the classifier call and generateResponse both  *)
(* succeed; status 500 with an error body when either of them throws.          *)
C13_OneResponsePerRequest ==
    /\ [](InTurn("http") => out["http"] = NoOut)
    /\ []C13_Sent
    /\ [][C13_Step]_vars

\* the request whose generateResponse threw was answered with status 500
C13_Witness ==
    /\ out["http"].status = "500"
    /\ last.caller = "http" /\ last.kind = "throw"
    /\ calls["http"] = [wit |-> 1, gemini |-> 0]

-----------------------------------------------------------------------------
\* the loop is at its prompt: a question is pending
C14_Prompting == pc["cli"] = "idle"

\* the callback of rl.question ran in this step: a line was read
C14_LineAccepted ==
    \/ (pc'["cli"] = "wit" /\ (pc["cli"] # "wit" \/ userMessage'["cli"] # userMessage["cli"]))
    \/ (pc'["cli"] = "closed" /\ pc["cli"] # "closed")

C14_Step ==
    /\ C14_LineAccepted => (C14_Prompting /\ ~InTurn("cli"))
    /\ (C14_Prompting /\ pc'["cli"] = "wit") =>
          (toLowerCase(userMessage'["cli"]) # kwExit /\ calls'["cli"] = [wit |-> 1, gemini |-> 0])
    /\ (InTurn("cli") /\ ~InTurn("cli")') =>
          /\ C14_Prompting'
          /\ out'["cli"] \in {ReplyOut("cli", botResponse'["cli"]), CatchOut("cli")}
    /\ (C14_Prompting /\ pc'["cli"] = "closed") =>
          /\ toLowerCase(userMessage'["cli"]) = kwExit
          /\ session' = session
          /\ calls'["cli"] = NoCalls
          /\ out'["cli"] = ByeOut
    /\ pc["cli"] = "closed" => (pc'["cli"] = "closed" /\ calls'["cli"] = NoCalls)

(* C14: the command-line loop handles one line at a time.  A line is read only *)
(* at the prompt, never while the turn of the previous line (classifier call,  *)
(* generateResponse, generative call) is in progress; the turn of a non-exit   *)
(* line ends, with the reply or with the generic failure reply, back at the    *)
(* prompt; a line that lower-cases to 'exit' closes the loop for good without  *)
(* running a turn or changing the session.                                     *)
C14_OneLineAtATime == [][C14_Step]_vars

\* 'ExiT' typed in the middle of a dialogue: the loop is closed, the slots stay
C14_Witness ==
    /\ pc["cli"] = "closed"
    /\ userMessage["cli"] = <<"E","x","i","T">>
    /\ out["cli"] = ByeOut
    /\ Truthy(session.hastane) /\ Falsy(session.bolum)

-----------------------------------------------------------------------------
(* C15: within one dialogue the success reply is returned, and the slots are   *)
(* cleared, only in a turn that follows a turn in which the confirmation       *)
(* message of the same three slot values was returned: the turn starts with    *)
(* all three slots filled and the execution of generateResponse before it      *)
(* returned the confirmation; the flow never goes from a slot question, or     *)
(* from no flow at all, directly to the completed booking.                     *)
C15_ConfirmationPrecedesSuccess ==
    (Ran /\ last.kind = "success") =>
        /\ AllFilled(last.pre)
        /\ last.prev = "confirm"

-----------------------------------------------------------------------------
\* the caller other than c
C16_Other(c) == IF c = "cli" THEN "http" ELSE "cli"

\* every slot value of s was supplied by caller d, and there is one
C16_SuppliedOnlyBy(d, s) ==
    /\ AnyFilled(s)
    /\ \A k \in {"hastane", "bolum", "datetime"} : Truthy(s[k]) => s[k] = ValueOf(d)

\* the latest execution of generateResponse ran for caller c, brought no entity
\* of its own and was no cancellation, on a session that held only values of
\* the other caller
C16_OnOthersValues(c) ==
    /\ Ran /\ last.caller = c /\ ~SaysCancel
    /\ NoEntityValues(last.wit)
    /\ C16_SuppliedOnlyBy(C16_Other(c), last.pre)

(* C16: one session is shared by all callers of both adapters, with no         *)
(* per-caller isolation: a turn of one caller on a session holding only values *)
(* the other caller supplied is answered from those values.  The question for  *)
(* a slot the other filled is skipped, the confirmation lists the other's      *)
(* values, and with 'evet' the turn returns the success reply and clears what  *)
(* the other had entered.                                                      *)
C16_NoCallerIsolation ==
    \A c \in Callers :
        C16_OnOthersValues(c) =>
            /\ last.kind \in {"ask", "confirm", "success"}
            /\ (Truthy(last.pre.hastane) /\ Falsy(last.pre.bolum)) =>
                  (last.reply = AskBolum /\ session.hastane = ValueOf(C16_Other(c)))
            /\ (AllFilled(last.pre) /\ ~SaysEvet) =>
                  /\ last.reply = Confirmation(last.pre)
                  /\ last.reply[2] = ValueOf(C16_Other(c))
                  /\ session = last.pre
            /\ (AllFilled(last.pre) /\ SaysEvet) =>
                  (last.reply = SuccessReply /\ session = EmptySession)
            /\ pc[c] = "idle" /\ out[c] = ReplyOut(c, last.reply)

\* overlapping turns: while the CLI user's next turn waits for the classifier,
\* an HTTP request that carries 'evet' and no entity completes the booking the
\* CLI user had entered, and clears it
C16_Witness ==
    /\ C16_OnOthersValues("http")
    /\ pc["cli"] = "wit"
    /\ last.pre = [hastane |-> "v1", bolum |-> "v1", datetime |-> "v1"]
    /\ out["http"] = ReplyOut("http", SuccessReply)
    /\ session = EmptySession

-----------------------------------------------------------------------------
\* this step is the execution of generateResponse for caller c: its classifier
\* call has completed
C17_Executes(c) == pc[c] = "wit" /\ last'.caller = c /\ last' # last

\* what the turn of c yields when run alone on session s
C17_Alone(s, c) == generateResponse(s, last'.wit, userMessage[c])

C17_Step ==
    /\ session' # session => \E c \in Callers : C17_Executes(c)
    /\ \A c \in Callers :
          C17_Executes(c) =>
              /\ last'.pre = session /\ last'.msg = userMessage[c]
              /\ session' = C17_Alone(session, c).session
              /\ last'.kind = C17_Alone(session, c).kind
              /\ last'.kind \notin {"fallback", "throw"} =>
                    /\ botResponse'[c] = C17_Alone(session, c).reply
                    /\ out'[c] = ReplyOut(c, C17_Alone(session, c).reply)
              /\ last'.kind = "fallback" =>
                    (pc'[c] = "gemini" /\ geminiReq'[c] = C17_Alone(session, c).req)
              /\ \A d \in Callers \ {c} :
                    /\ pc'[d] = pc[d] /\ userMessage'[d] = userMessage[d]
                    /\ geminiReq'[d] = geminiReq[d] /\ out'[d] = out[d]
    /\ \A c \in Callers :
          (pc[c] = "gemini" /\ pc'[c] # "gemini") =>
              /\ session' = session
              /\ geminiData'[c] # NoGeminiData
              /\ out'[c] = ReplyOut(c, askGemini(geminiData'[c]))

(* C17: each turn's reads and writes of the session form one atomic step.  The *)
(* session changes only in the step in which a caller's classifier call has    *)
(* completed and generateResponse runs; that step reads the session the        *)
(* previous such step left, and its session, reply and generative request are  *)
(* those of running the turn alone on that session, whatever other turns are   *)
(* suspended; no other caller's turn is touched by it; the step that resumes   *)
(* after the generative call neither reads nor writes the session.  So every   *)
(* interleaving leaves the session and replies of running the turns one after  *)
(* another in the order their classifier calls completed.                      *)
C17_TurnsAreAtomic == [][C17_Step]_vars

\* a whole turn of the HTTP caller ran inside the CLI turn: the CLI handler is
\* still awaiting the generative call it issued on an empty session, and the
\* session now holds what the HTTP turn merged
C17_Witness ==
    /\ pc["cli"] = "gemini" /\ calls["cli"] = [wit |-> 1, gemini |-> 1]
    /\ Ran /\ last.caller = "http" /\ last.kind = "ask"
    /\ pc["http"] = "idle" /\ out["http"] = ReplyOut("http", AskBolum)
    /\ session.hastane = "v2"

-----------------------------------------------------------------------------
\* the ordered candidates of each slot: a key, and whether the item's own value
\* or its first nested candidate is taken
C18_Own(key) == [key |-> key, nested |-> FALSE]
C18_Nested(key) == [key |-> key, nested |-> TRUE]

C18_Aliases ==
    [hastane |-> <<C18_Own("hastane:hastane"), C18_Own("hastane")>>,
     bolum |-> <<C18_Own("bolum:bolum"), C18_Own("bolum")>>,
     datetime |-> <<C18_Own("wit$datetime:datetime"), C18_Own("wit$datetime"),
                    C18_Own("wit/datetime:datetime"), C18_Nested("wit/datetime:datetime"),
                    C18_Own("wit/datetime"), C18_Nested("wit/datetime")>>]

\* what candidate a yields from the first item under its key
C18_Yield(e, a) ==
    IF e[a.key] = <<>> THEN Undefined
    ELSE IF ~a.nested THEN e[a.key][1].value
    ELSE IF e[a.key][1].values = <<>> THEN Undefined
    ELSE e[a.key][1].values[1].value

\* the places in the list that yield a non-empty value
C18_Yielding(e, k) ==
    {i \in 1..Len(C18_Aliases[k]) : C18_Yield(e, C18_Aliases[k][i]) \notin {Undefined, Null, EmptyStr}}

C18_SlotMerged(k) ==
    LET e == last.wit.entities
        hits == C18_Yielding(e, k)
    IN  Falsy(last.pre[k]) =>
            IF hits = {} THEN Falsy(last.merged[k])
            ELSE last.merged[k] =
                    C18_Yield(e, C18_Aliases[k][CHOOSE i \in hits : \A j \in hits : i <= j])

(* C18: the entity merge follows a per-slot ordered alias list: for each slot  *)
(* that is absent at the start of the turn, its value after the merge is the   *)
(* value under the first alias of the slot's list that yields a non-empty      *)
(* value (hastane: 'hastane:hastane', 'hastane'; bolum: 'bolum:bolum',         *)
(* 'bolum'; datetime: 'wit$datetime:datetime', 'wit$datetime', the value of    *)
(* 'wit/datetime:datetime', its first nested candidate, the value of           *)
(* 'wit/datetime', its first nested candidate), and the slot stays absent when *)
(* no alias yields one.                                                        *)
C18_FirstAliasWins ==
    Ran => (C18_SlotMerged("hastane") /\ C18_SlotMerged("bolum") /\ C18_SlotMerged("datetime"))

\* the item under 'wit/datetime:datetime' has a value of its own and a nested
\* candidate: the empty datetime slot takes the item's own value
C18_Witness ==
    /\ Ran /\ Falsy(last.pre.datetime)
    /\ C18_Yielding(last.wit.entities, "datetime") = {3, 4}
    /\ last.merged.datetime = "v2"
    /\ last.wit.entities["wit/datetime:datetime"][1].values[1].value = "v1"

-----------------------------------------------------------------------------
\* the turn of caller c has produced its reply
C19_Replied(c) == pc[c] = "idle" /\ out[c] # NoOut

\* each external service is called at most once per turn, and a turn in
\* progress has produced no reply
C19_AtMostOnce ==
    \A c \in Callers :
        /\ calls[c].wit <= 1 /\ calls[c].gemini <= 1
        /\ InTurn(c) => (calls[c].wit = 1 /\ out[c] = NoOut)
        /\ pc[c] = "gemini" => calls[c].gemini = 1

\* a handler leaves an await only when the call it awaits has returned or
\* failed, and issues no call again
C19_Step ==
    \A c \in Callers :
        /\ (pc[c] = "wit" /\ pc'[c] # "wit") =>
              \/ (last'.caller = c /\ last' # last)
              \/ (pc'[c] = "idle" /\ out'[c] = CatchOut(c))
        /\ (pc[c] = "gemini" /\ pc'[c] # "gemini") =>
              (geminiData[c] = NoGeminiData /\ geminiData'[c] # NoGeminiData)
        /\ (InTurn(c) /\ InTurn(c)') =>
              (calls'[c].wit = calls[c].wit /\ calls'[c].gemini >= calls[c].gemini)
        /\ (InTurn(c) /\ ~InTurn(c)') =>
              /\ pc'[c] = "idle"
              /\ out'[c] \in {ReplyOut(c, botResponse'[c]), CatchOut(c)}
              /\ calls'[c] = calls[c]

(* C19: no timeout or retry wraps the external calls.  Provided every external *)
(* call of a turn eventually returns or fails, every accepted turn eventually  *)
(* produces its one reply (the reply or the generic failure reply, with the    *)
(* command-line loop back at its prompt; one response of POST /chat), and each *)
(* external service is called at most once per turn; a turn leaves an await    *)
(* only through the return or failure of the awaited call, so while a call     *)
(* does not return the turn produces no reply and the loop does not prompt.    *)
C19_EveryTurnRepliesOnce ==
    /\ []C19_AtMostOnce
    /\ [][C19_Step]_vars
    /\ \A c \in Callers : InTurn(c) ~> C19_Replied(c)

\* a turn of the command-line loop made both calls, once each, printed the
\* generated text and is back at the prompt
C19_Witness ==
    /\ C19_Replied("cli")
    /\ calls["cli"] = [wit |-> 1, gemini |-> 1]
    /\ out["cli"] = ReplyOut("cli", <<"Merhaba!">>)

====
